---- MODULE Spec2Model ----
(***************************************************************************)
(* The two task-list applications of src/src/App.js:                       *)
(*   - the browser-storage planner (App.js 4-189): a closure over `tasks`  *)
(*     and `editingId`, persisted to localStorage by renderTasks;          *)
(*   - the form-based planner (App.js 195-241 with AddTaskForm.js): a      *)
(*     React state list fed by the add-task form.                          *)
(* A run is an instance of one of the two (variable app).                  *)
(*                                                                         *)
(* Text that the code inspects character by character (titles, the search  *)
(* box) is a sequence of one-character strings; ids, dates, statuses and   *)
(* messages are strings.  Timestamps are readings of the clock `now`.      *)
(* The three input elements #title, #description, #due are the user's      *)
(* input channel: their content at the moment of a click is an argument of *)
(* the click.                                                              *)
(***************************************************************************)
EXTENDS Integers, Sequences, FiniteSets

VARIABLES
    app,            \* "browser" | "form": which App of App.js runs
    now,            \* the clock read by nowISO() / Date.now()
    lastOp,         \* the handler that ran last, with its arguments
    \* ---- browser-storage planner
    phase,          \* "unmounted" | "running" | "crashed" (the effect threw)
    tasks,          \* let tasks (App.js 28)
    editingId,      \* let editingId (App.js 31)
    errorDiv,       \* errorDiv.textContent
    addBtn,         \* addBtn.textContent
    searchInput,    \* searchInput.value
    filterSelect,   \* filterSelect.value
    sortSelect,     \* sortSelect.value
    cards,          \* the task cards in tasksContainer, in order
    stored,         \* localStorage["school-planner-tasks"]
    thrown,         \* the exception the last handler let escape ("" if none)
    \* ---- form-based planner
    rtasks,         \* useState tasks (App.js 196)
    showForm,       \* useState showForm (App.js 197)
    formData,       \* AddTaskForm formData
    errors,         \* AddTaskForm errors
    alertMsg,       \* the last alert() shown by the form
    calls,          \* the onAddTask calls of the last form handler, with outcome
    tz              \* the user's time zone offset, in clock units

bvars == <<phase, tasks, editingId, errorDiv, addBtn, searchInput,
           filterSelect, sortSelect, cards, stored, thrown>>
fvars == <<rtasks, showForm, formData, errors, alertMsg, calls, tz>>
vars == <<app, now, lastOp, bvars, fvars>>

(* ------------------------------ bounds -------------------------------- *)
MaxTasks == 2       \* creates are cut off at this many tasks
MaxClock == 1       \* the clock is cut off at this reading

(* --------------------------- value domains ---------------------------- *)
NULL == "NULL"      \* JavaScript null (no base-36 id is upper case)

\* What uid() can return: up to seven base-36 digits of Math.random(); the
\* empty string when the random number prints as "0".
Ids == {"", "k1", "k2"}

Statuses == {"pending", "in-progress", "completed"}

\* Contents of the three input elements at a click.
Inputs ==
    { [title |-> <<"A", "b">>, description |-> <<>>,    due |-> "2025-10-31T09:00"],
      [title |-> <<" ", "b">>, description |-> <<"a">>, due |-> "2025-10-30T09:00"],
      [title |-> <<>>,         description |-> <<>>,    due |-> "2025-10-30T09:00"],
      [title |-> <<" ">>,      description |-> <<"a">>, due |-> "2025-10-31T09:00"],
      [title |-> <<"A", "b">>, description |-> <<"a">>, due |-> ""] }

NoInput == [title |-> <<>>, description |-> <<>>, due |-> ""]

(* ------------------------------ strings ------------------------------- *)
RECURSIVE TrimStart(_)
TrimStart(s) ==
    IF s # <<>> /\ Head(s) = " " THEN TrimStart(Tail(s)) ELSE s

RECURSIVE TrimEnd(_)
TrimEnd(s) ==
    IF s # <<>> /\ s[Len(s)] = " " THEN TrimEnd(SubSeq(s, 1, Len(s) - 1)) ELSE s

\* String.prototype.trim
Trim(s) == TrimEnd(TrimStart(s))

LowerChar(c) ==
    CASE c = "A" -> "a"
      [] c = "B" -> "b"
      [] OTHER -> c

\* String.prototype.toLowerCase
ToLowerCase(s) == [i \in 1..Len(s) |-> LowerChar(s[i])]

\* String.prototype.includes
Includes(s, q) ==
    \E i \in 0..(Len(s) - Len(q)) : SubSeq(s, i + 1, i + Len(q)) = q

\* new Date(due) for a datetime-local value, in minutes from 2025-10-30T00:00
ParseDate(due) ==
    CASE due = "2025-10-30T09:00" -> 540
      [] due = "2025-10-31T09:00" -> 1980
      [] OTHER -> -1

(* ------------------------- browser-storage planner -------------------- *)
\* if (x): neither null nor the empty string
Truthy(x) == x # NULL /\ x # ""

\* validate without the due-date test
validateNoDue(title, due) ==
    IF Trim(title) = <<>> THEN "Title is required!" ELSE NULL

\* validate testing the title without trimming it
validateNoTrim(title, due) ==
    IF title = <<>> THEN "Title is required!"
    ELSE IF due = "" THEN "Please select a due date."
    ELSE NULL

validate(title, due) ==
    IF Trim(title) = <<>> THEN "Title is required!"
    ELSE IF due = "" THEN "Please select a due date."
    ELSE NULL

\* JSON.stringify(tasks): one entry per task, the fields in key order
JSONstringify(ts) ==
    [i \in 1..Len(ts) |->
        <<ts[i].id, ts[i].title, ts[i].description, ts[i].due,
          ts[i].status, ts[i].createdAt, ts[i].updatedAt>>]

\* JSON.parse of such a text
JSONparse(js) ==
    [i \in 1..Len(js) |->
        [id |-> js[i][1], title |-> js[i][2], description |-> js[i][3],
         due |-> js[i][4], status |-> js[i][5], createdAt |-> js[i][6],
         updatedAt |-> js[i][7]]]

NoItem == [kind |-> "absent", val |-> <<>>]
CorruptItem == [kind |-> "corrupt", val |-> <<>>]
Item(ts) == [kind |-> "json", val |-> JSONstringify(ts)]

\* the comparator of filtered.sort: negative when a goes first
Compare(a, b, sortBy) ==
    IF sortBy = "due" THEN ParseDate(a.due) - ParseDate(b.due)
    ELSE b.createdAt - a.createdAt

\* Array.prototype.sort is stable: an element goes behind every element it
\* does not precede.
RECURSIVE InsertSorted(_, _, _)
InsertSorted(s, e, sortBy) ==
    IF s = <<>> THEN <<e>>
    ELSE IF Compare(e, Head(s), sortBy) < 0 THEN <<e>> \o s
    ELSE <<Head(s)>> \o InsertSorted(Tail(s), e, sortBy)

RECURSIVE SortSeq(_, _)
SortSeq(s, sortBy) ==
    IF s = <<>> THEN <<>>
    ELSE InsertSorted(SortSeq(SubSeq(s, 1, Len(s) - 1), sortBy), s[Len(s)], sortBy)

\* the presented sequence when an empty search box matches no task
FilteredEmptyMatchesNone(ts, search, filter, sortBy) ==
    LET byStatus == IF filter # "all"
                    THEN SelectSeq(ts, LAMBDA t : t.status = filter)
                    ELSE ts
    IN  IF search = <<>> THEN <<>>
        ELSE SortSeq(SelectSeq(byStatus,
                         LAMBDA t : Includes(ToLowerCase(t.title), search)),
                     sortBy)

\* the presented sequence when the status filter keeps the other statuses
FilteredOtherStatuses(ts, search, filter, sortBy) ==
    LET byStatus == IF filter # "all"
                    THEN SelectSeq(ts, LAMBDA t : t.status # filter)
                    ELSE ts
        bySearch == IF search # <<>>
                    THEN SelectSeq(byStatus,
                             LAMBDA t : Includes(ToLowerCase(t.title), search))
                    ELSE byStatus
    IN  SortSeq(bySearch, sortBy)

\* renderTasks, lines 36-53: the presented sequence
Filtered(ts, search, filter, sortBy) ==
    LET byStatus == IF filter # "all"
                    THEN SelectSeq(ts, LAMBDA t : t.status = filter)
                    ELSE ts
        bySearch == IF search # <<>>
                    THEN SelectSeq(byStatus,
                             LAMBDA t : Includes(ToLowerCase(t.title), search))
                    ELSE byStatus
    IN  SortSeq(bySearch, sortBy)

\* renderTasks without the write to localStorage
RenderTasksNoSave(ts, search, filter, sortBy, ok) ==
    /\ tasks' = ts
    /\ cards' = Filtered(ts, ToLowerCase(search), filter, sortBy)
    /\ stored' = stored
    /\ thrown' = ""

\* renderTasks whose failed write takes the change of `tasks` back
RenderTasksRollback(ts, search, filter, sortBy, ok) ==
    /\ tasks' = IF ok THEN ts ELSE tasks
    /\ cards' = Filtered(IF ok THEN ts ELSE tasks, ToLowerCase(search),
                         filter, sortBy)
    /\ stored' = IF ok THEN Item(ts) ELSE stored
    /\ thrown' = IF ok THEN "" ELSE "QuotaExceededError"

\* renderTasks sorting `tasks` itself instead of a copy
RenderTasksInPlace(ts, search, filter, sortBy, ok) ==
    /\ tasks' = SortSeq(ts, sortBy)
    /\ cards' = Filtered(ts, ToLowerCase(search), filter, sortBy)
    /\ stored' = IF ok THEN Item(SortSeq(ts, sortBy)) ELSE stored
    /\ thrown' = IF ok THEN "" ELSE "QuotaExceededError"

\* renderTasks with `tasks` holding ts: the cards are rebuilt and the
\* collection is written to localStorage (setItem succeeds iff ok; it throws
\* when the quota is exceeded and the exception leaves the handler).
RenderTasks(ts, search, filter, sortBy, ok) ==
    /\ tasks' = ts
    /\ cards' = Filtered(ts, ToLowerCase(search), filter, sortBy)
    /\ stored' = IF ok THEN Item(ts) ELSE stored
    /\ thrown' = IF ok THEN "" ELSE "QuotaExceededError"

Op(name, id, status, inp) ==
    [op |-> name, id |-> id, status |-> status, inp |-> inp]

uid == Ids

nowISO == now

\* push in place of unshift
UnshiftAtEnd(s, e) == Append(s, e)

\* Array.prototype.unshift
Unshift(s, e) == <<e>> \o s

\* addOrSaveTask, lines 98-102: the edit applied to every task with the id
MapEdit(ts, id, inp, at) ==
    [i \in 1..Len(ts) |->
        IF ts[i].id = id
        THEN [ts[i] EXCEPT !.title = inp.title,
                           !.description = inp.description,
                           !.due = inp.due,
                           !.updatedAt = at]
        ELSE ts[i]]

\* a new task given the status name of the console variant
NewTaskTodo(id, inp, created, updated) ==
    [id |-> id, title |-> inp.title, description |-> inp.description,
     due |-> inp.due, status |-> "TODO",
     createdAt |-> created, updatedAt |-> updated]

\* addOrSaveTask, lines 106-114
NewTask(id, inp, created, updated) ==
    [id |-> id, title |-> inp.title, description |-> inp.description,
     due |-> inp.due, status |-> "pending",
     createdAt |-> created, updatedAt |-> updated]

\* updateStatus, lines 138-140
MapStatus(ts, id, status, at) ==
    [i \in 1..Len(ts) |->
        IF ts[i].id = id
        THEN [ts[i] EXCEPT !.status = status, !.updatedAt = at]
        ELSE ts[i]]

\* deleteTask, line 132
RemoveId(ts, id) == SelectSeq(ts, LAMBDA t : t.id # id)

\* the effect with a corrupt item treated like no item
MountStartsEmpty(ok) ==
    /\ app = "browser" /\ phase = "unmounted"
    /\ lastOp' = Op("mount", NULL, "", NoInput)
    /\ phase' = "running"
    /\ RenderTasks(IF stored.kind = "json" THEN JSONparse(stored.val) ELSE <<>>,
                   searchInput, filterSelect, sortSelect, ok)
    /\ UNCHANGED <<app, now, editingId, errorDiv, addBtn, searchInput,
                   filterSelect, sortSelect, fvars>>

\* The effect of useEffect: the collection is read from localStorage, the
\* handlers are installed and the list is rendered.  JSON.parse throws on a
\* corrupt item and the effect ends there.
Mount(ok) ==
    /\ app = "browser" /\ phase = "unmounted"
    /\ lastOp' = Op("mount", NULL, "", NoInput)
    /\ IF stored.kind = "corrupt"
       THEN /\ phase' = "crashed"
            /\ thrown' = "SyntaxError"
            /\ ok
            /\ UNCHANGED <<tasks, cards, stored>>
       ELSE /\ phase' = "running"
            /\ RenderTasks(IF stored.kind = "absent" THEN <<>>
                           ELSE JSONparse(stored.val),
                           searchInput, filterSelect, sortSelect, ok)
    /\ UNCHANGED <<app, now, editingId, errorDiv, addBtn, searchInput,
                   filterSelect, sortSelect, fvars>>

\* addOrSaveTask going on after a validation error
ReturnsEarlyNever(err) == FALSE

\* if (err), line 91
ReturnsEarly(err) == err # NULL

\* addBtn.onclick with inp in the input elements; d is the time that passes
\* between the two clock readings of a create.
addOrSaveTask(inp, d, ok) ==
    LET err == validate(inp.title, inp.due) IN
    /\ app = "browser" /\ phase = "running"
    /\ lastOp' = Op("addOrSaveTask", editingId, "", inp)
    /\ IF ReturnsEarly(err)
       THEN /\ errorDiv' = err
            /\ thrown' = ""
            /\ d = 0 /\ ok
            /\ UNCHANGED <<now, tasks, editingId, addBtn, cards, stored>>
       ELSE /\ errorDiv' = ""
            /\ IF Truthy(editingId)
               THEN /\ d = 0
                    /\ editingId' = NULL
                    /\ addBtn' = "Add Task"
                    /\ now' = now
                    /\ RenderTasks(MapEdit(tasks, editingId, inp, nowISO),
                                   searchInput, filterSelect, sortSelect, ok)
               ELSE /\ Len(tasks) < MaxTasks
                    /\ now + d <= MaxClock
                    /\ now' = now + d
                    /\ \E id \in uid :
                         RenderTasks(Unshift(tasks,
                                         NewTask(id, inp, nowISO, nowISO + d)),
                                     searchInput, filterSelect, sortSelect, ok)
                    /\ UNCHANGED <<editingId, addBtn>>
    /\ UNCHANGED <<app, phase, searchInput, filterSelect, sortSelect, fvars>>

\* the Edit button of card i
startEdit(i) ==
    /\ app = "browser" /\ phase = "running"
    /\ i \in 1..Len(cards)
    /\ lastOp' = Op("startEdit", cards[i].id, "", NoInput)
    /\ editingId' = cards[i].id
    /\ addBtn' = "Save Task"
    /\ thrown' = ""
    /\ UNCHANGED <<app, now, phase, tasks, errorDiv, searchInput,
                   filterSelect, sortSelect, cards, stored, fvars>>

\* the Delete button of card i; confirmed is the answer to window.confirm
deleteTask(i, confirmed, ok) ==
    /\ app = "browser" /\ phase = "running"
    /\ i \in 1..Len(cards)
    /\ lastOp' = Op(IF confirmed THEN "deleteTask" ELSE "deleteTask-cancelled",
                    cards[i].id, "", NoInput)
    /\ IF confirmed
       THEN RenderTasks(RemoveId(tasks, cards[i].id),
                        searchInput, filterSelect, sortSelect, ok)
       ELSE ok /\ thrown' = "" /\ UNCHANGED <<tasks, cards, stored>>
    /\ UNCHANGED <<app, now, phase, editingId, errorDiv, addBtn,
                   searchInput, filterSelect, sortSelect, fvars>>

\* one of the three status buttons of card i
updateStatus(i, status, ok) ==
    /\ app = "browser" /\ phase = "running"
    /\ i \in 1..Len(cards)
    /\ lastOp' = Op("updateStatus", cards[i].id, status, NoInput)
    /\ RenderTasks(MapStatus(tasks, cards[i].id, status, nowISO),
                   searchInput, filterSelect, sortSelect, ok)
    /\ UNCHANGED <<app, now, phase, editingId, errorDiv, addBtn,
                   searchInput, filterSelect, sortSelect, fvars>>

\* searchInput.oninput
SetSearch(q, ok) ==
    /\ app = "browser" /\ phase = "running"
    /\ lastOp' = Op("search", NULL, "", NoInput)
    /\ searchInput' = q
    /\ RenderTasks(tasks, q, filterSelect, sortSelect, ok)
    /\ UNCHANGED <<app, now, phase, editingId, errorDiv, addBtn,
                   filterSelect, sortSelect, fvars>>

\* filterSelect.onchange
SetFilter(f, ok) ==
    /\ app = "browser" /\ phase = "running"
    /\ lastOp' = Op("filter", NULL, "", NoInput)
    /\ filterSelect' = f
    /\ RenderTasks(tasks, searchInput, f, sortSelect, ok)
    /\ UNCHANGED <<app, now, phase, editingId, errorDiv, addBtn,
                   searchInput, sortSelect, fvars>>

\* sortSelect.onchange
SetSort(sortBy, ok) ==
    /\ app = "browser" /\ phase = "running"
    /\ lastOp' = Op("sort", NULL, "", NoInput)
    /\ sortSelect' = sortBy
    /\ RenderTasks(tasks, searchInput, filterSelect, sortBy, ok)
    /\ UNCHANGED <<app, now, phase, editingId, errorDiv, addBtn,
                   searchInput, filterSelect, fvars>>

\* time passes
Tick ==
    /\ now < MaxClock
    /\ now' = now + 1
    /\ lastOp' = Op("tick", NULL, "", NoInput)
    /\ UNCHANGED <<app, bvars, fvars>>

(* --------------------------- form-based planner ----------------------- *)
\* What the user can put into each field of the add-task form.
FormValues ==
    [title       |-> {<<>>, <<" ">>, <<"A", "b">>},
     description |-> {""},
     dueDate     |-> {"", "1970-01-01", "1970-01-02"},
     category    |-> {"", "Math"},
     priority    |-> {"Medium", "High"}]

\* The user's time zone: UTC-12, UTC, UTC+12 (a clock unit is 12 hours).
TzOffsets == {-1, 0, 1}

\* useState initial values, AddTaskForm.js 5-13
FormDefaults ==
    [title |-> <<>>, description |-> "", dueDate |-> "", category |-> "",
     priority |-> "Medium"]

NoErrors == [title |-> "", category |-> "", dueDate |-> ""]

\* new Date("YYYY-MM-DD"): midnight UTC of that day, in clock units
ParseDay(d) ==
    CASE d = "1970-01-01" -> 0
      [] d = "1970-01-02" -> 2
      [] OTHER -> -1

\* new Date() followed by setHours(0, 0, 0, 0): the user's local midnight
LocalMidnight(at, offset) == ((at + offset) \div 2) * 2 - offset

\* validateForm: the new errors object ("" for a key that is not set)
validateForm(fd, at, offset) ==
    [title    |-> IF Trim(fd.title) = <<>> THEN "Title is required" ELSE "",
     category |-> IF fd.category = "" THEN "Category is required" ELSE "",
     dueDate  |-> IF fd.dueDate # ""
                     /\ ParseDay(fd.dueDate) < LocalMidnight(at, offset)
                  THEN "Due date cannot be in the past" ELSE ""]

\* handleSubmit, lines 64-70
TaskData(fd) ==
    [title |-> fd.title, notes |-> fd.description,
     due_date |-> IF fd.dueDate = "" THEN NULL ELSE fd.dueDate,
     subject |-> fd.category, priority |-> fd.priority]

\* handleAddTask, lines 202-208: the collection after the add
handleAddTask(ts, taskData, id, created) ==
    Append(ts, [id |-> id, title |-> taskData.title, notes |-> taskData.notes,
                due_date |-> taskData.due_date, subject |-> taskData.subject,
                priority |-> taskData.priority, completed |-> FALSE,
                created_at |-> created])

\* App renders <AddTaskForm onAddTask={handleAddTask} /> while showForm holds;
\* a form that appears starts from its initial state.
OpenForm ==
    /\ app = "form" /\ ~showForm
    /\ lastOp' = Op("openForm", NULL, "", NoInput)
    /\ showForm' = TRUE
    /\ formData' = FormDefaults
    /\ errors' = NoErrors
    /\ calls' = <<>>
    /\ UNCHANGED <<app, now, bvars, rtasks, alertMsg, tz>>

\* handleChange for the field `name`
handleChange(name, value) ==
    /\ app = "form" /\ showForm
    /\ lastOp' = Op("handleChange", NULL, "", NoInput)
    /\ formData' = [formData EXCEPT ![name] = value]
    /\ errors' = IF name \in DOMAIN errors /\ errors[name] # ""
                 THEN [errors EXCEPT ![name] = ""]
                 ELSE errors
    /\ calls' = <<>>
    /\ UNCHANGED <<app, now, bvars, rtasks, showForm, alertMsg, tz>>

\* the Clear Form button
clearForm ==
    /\ app = "form" /\ showForm
    /\ lastOp' = Op("clearForm", NULL, "", NoInput)
    /\ formData' = FormDefaults
    /\ errors' = NoErrors
    /\ calls' = <<>>
    /\ UNCHANGED <<app, now, bvars, rtasks, showForm, alertMsg, tz>>

\* one call of onAddTask: its argument and whether the promise resolved
Call(taskData, ok) == [arg |-> taskData, resolved |-> ok]

\* handleSubmit resetting the form and reporting success in a `finally`
handleSubmitResetsAlways(d, ok) ==
    LET newErrors == validateForm(formData, now, tz) IN
    /\ app = "form" /\ showForm
    /\ lastOp' = Op("handleSubmit", NULL, "", NoInput)
    /\ errors' = newErrors
    /\ IF newErrors # NoErrors
       THEN /\ d = 0 /\ ok
            /\ calls' = <<>>
            /\ UNCHANGED <<now, rtasks, showForm, formData, alertMsg>>
       ELSE /\ calls' = <<Call(TaskData(formData), ok)>>
            /\ formData' = FormDefaults
            /\ alertMsg' = "Task added successfully!"
            /\ IF ok
               THEN /\ Len(rtasks) < MaxTasks
                    /\ now + d <= MaxClock
                    /\ now' = now + d
                    /\ rtasks' = handleAddTask(rtasks, TaskData(formData),
                                               now, now + d)
                    /\ showForm' = FALSE
               ELSE /\ d = 0
                    /\ UNCHANGED <<now, rtasks, showForm>>
    /\ UNCHANGED <<app, bvars, tz>>

\* handleSubmit with onAddTask = handleAddTask; d is the time that passes
\* between Date.now() and new Date() in handleAddTask; ok is whether the
\* try block of handleAddTask runs through (it rethrows otherwise, App.js
\* 209-212, before any state is set).
handleSubmit(d, ok) ==
    LET newErrors == validateForm(formData, now, tz) IN
    /\ app = "form" /\ showForm
    /\ lastOp' = Op("handleSubmit", NULL, "", NoInput)
    /\ errors' = newErrors
    /\ IF newErrors # NoErrors
       THEN /\ d = 0 /\ ok
            /\ calls' = <<>>
            /\ UNCHANGED <<now, rtasks, showForm, formData, alertMsg>>
       ELSE /\ calls' = <<Call(TaskData(formData), ok)>>
            /\ IF ok
               THEN /\ Len(rtasks) < MaxTasks
                    /\ now + d <= MaxClock
                    /\ now' = now + d
                    /\ rtasks' = handleAddTask(rtasks, TaskData(formData),
                                               now, now + d)
                    /\ showForm' = FALSE
                    /\ formData' = FormDefaults
                    /\ alertMsg' = "Task added successfully!"
               ELSE /\ d = 0
                    /\ alertMsg' = "Failed to add task. Please try again."
                    /\ UNCHANGED <<now, rtasks, showForm, formData>>
    /\ UNCHANGED <<app, bvars, tz>>

(* --------------------------- specifications --------------------------- *)
Init ==
    /\ app \in {"browser", "form"}
    /\ now = 0
    /\ lastOp = Op("init", NULL, "", NoInput)
    /\ phase = "unmounted"
    /\ tasks = <<>>
    /\ editingId = NULL
    /\ errorDiv = ""
    /\ addBtn = "Add Task"
    /\ searchInput = <<>>
    /\ filterSelect = "all"
    /\ sortSelect = "createdAt"
    /\ cards = <<>>
    /\ thrown = ""
    /\ stored \in IF app = "browser" THEN {NoItem, CorruptItem, Item(<<>>)}
                  ELSE {NoItem}
    /\ rtasks = <<>>
    /\ showForm = FALSE
    /\ formData = FormDefaults
    /\ errors = NoErrors
    /\ alertMsg = ""
    /\ calls = <<>>
    /\ tz \in IF app = "form" THEN TzOffsets ELSE {0}

\* The planners with every write to localStorage succeeding and the list
\* controls left at their initial selection.
Next ==
    \/ Mount(TRUE)
    \/ \E inp \in Inputs, d \in {0, 1} : addOrSaveTask(inp, d, TRUE)
    \/ \E i \in 1..MaxTasks : startEdit(i)
    \/ \E i \in 1..MaxTasks, confirmed \in BOOLEAN : deleteTask(i, confirmed, TRUE)
    \/ \E i \in 1..MaxTasks, status \in Statuses : updateStatus(i, status, TRUE)
    \/ Tick
    \/ OpenForm
    \/ \E name \in DOMAIN FormValues :
         \E value \in FormValues[name] : handleChange(name, value)
    \/ clearForm
    \/ \E d \in {0, 1} : handleSubmit(d, TRUE)

Spec == Init /\ [][Next]_vars

\* Collections a previous session has left in localStorage.
OlderTask ==
    NewTask("k1", [title |-> <<" ", "b">>, description |-> <<"a">>,
                   due |-> "2025-10-30T09:00"], 0, 0)
NewerTask ==
    NewTask("k2", [title |-> <<"A", "b">>, description |-> <<>>,
                   due |-> "2025-10-31T09:00"], 1, 1)
ViewCollections == {<<>>, <<OlderTask>>, <<NewerTask, OlderTask>>}

\* What the user can type into the search box and select in the two lists.
Searches == {<<>>, <<"a">>, <<"B">>, <<"x">>}
Filters == {"all"} \cup Statuses
Sorts == {"createdAt", "due"}

InitView ==
    /\ app = "browser"
    /\ now = 1
    /\ lastOp = Op("init", NULL, "", NoInput)
    /\ phase = "unmounted"
    /\ tasks = <<>>
    /\ editingId = NULL
    /\ errorDiv = ""
    /\ addBtn = "Add Task"
    /\ searchInput = <<>>
    /\ filterSelect = "all"
    /\ sortSelect = "createdAt"
    /\ cards = <<>>
    /\ thrown = ""
    /\ stored \in {Item(c) : c \in ViewCollections}
    /\ rtasks = <<>>
    /\ showForm = FALSE
    /\ formData = FormDefaults
    /\ errors = NoErrors
    /\ alertMsg = ""
    /\ calls = <<>>
    /\ tz = 0

\* The browser-storage planner started on a stored collection, with the
\* list controls in use.
NextView ==
    \/ Mount(TRUE)
    \/ \E q \in Searches : SetSearch(q, TRUE)
    \/ \E f \in Filters : SetFilter(f, TRUE)
    \/ \E sortBy \in Sorts : SetSort(sortBy, TRUE)
    \/ \E i \in 1..MaxTasks, status \in Statuses : updateStatus(i, status, TRUE)
    \/ \E i \in 1..MaxTasks, confirmed \in BOOLEAN : deleteTask(i, confirmed, TRUE)

SpecView == InitView /\ [][NextView]_vars

\* What is typed in the runs in which localStorage may be full.
DirtyInputs ==
    { [title |-> <<"A", "b">>, description |-> <<>>, due |-> "2025-10-31T09:00"],
      [title |-> <<" ">>,      description |-> <<"a">>, due |-> "2025-10-31T09:00"] }

InitDirty ==
    /\ app = "browser"
    /\ now = 0
    /\ lastOp = Op("init", NULL, "", NoInput)
    /\ phase = "unmounted"
    /\ tasks = <<>>
    /\ editingId = NULL
    /\ errorDiv = ""
    /\ addBtn = "Add Task"
    /\ searchInput = <<>>
    /\ filterSelect = "all"
    /\ sortSelect = "createdAt"
    /\ cards = <<>>
    /\ thrown = ""
    /\ stored = NoItem
    /\ rtasks = <<>>
    /\ showForm = FALSE
    /\ formData = FormDefaults
    /\ errors = NoErrors
    /\ alertMsg = ""
    /\ calls = <<>>
    /\ tz = 0

\* The browser-storage planner with a localStorage whose setItem may throw
\* (quota exceeded) at any write.
NextDirty ==
    \E ok \in BOOLEAN :
        \/ Mount(ok)
        \/ \E inp \in DirtyInputs : addOrSaveTask(inp, 0, ok)
        \/ \E i \in 1..MaxTasks : startEdit(i)
        \/ \E i \in 1..MaxTasks : deleteTask(i, TRUE, ok)
        \/ \E i \in 1..MaxTasks, status \in {"pending", "completed"} :
             updateStatus(i, status, ok)

SpecDirty == InitDirty /\ [][NextDirty]_vars

\* The form planner with an onAddTask that may reject.
InitForm ==
    /\ Init
    /\ app = "form"

NextForm ==
    \/ Tick
    \/ OpenForm
    \/ \E name \in DOMAIN FormValues :
         \E value \in FormValues[name] : handleChange(name, value)
    \/ clearForm
    \/ \E d \in {0, 1}, ok \in BOOLEAN : handleSubmit(d, ok)

SpecForm == InitForm /\ [][NextForm]_vars

(* ------------------------------- claims ------------------------------- *)
HasId(ts, id) == \E i \in 1..Len(ts) : ts[i].id = id

RemoveAt(s, i) == SubSeq(s, 1, i - 1) \o SubSeq(s, i + 1, Len(s))

IsBlank(title) == \A i \in 1..Len(title) : title[i] = " "

\* the step is a click on the add/save button of the browser-storage planner
IsClick == lastOp'.op = "addOrSaveTask"

\* ... taken as a create (not in edit mode) that added a task
IsCreate == IsClick /\ ~Truthy(editingId) /\ Len(tasks') = Len(tasks) + 1

\* the step is a submit of the add-task form
IsSubmit == lastOp'.op = "handleSubmit"

\* C1: no two tasks of the collection have the same id (the first half of
\* the claim: ids are unique among the tasks present).
C1_IdsUnique ==
    /\ \A i, j \in 1..Len(tasks) : i # j => tasks[i].id # tasks[j].id
    /\ \A i, j \in 1..Len(rtasks) : i # j => rtasks[i].id # rtasks[j].id

\* C2: a save that targets an id which is not in the collection reports an
\* error to the user and leaves the collection unchanged.
C2_MissingIdReported ==
    [][(/\ IsClick
        /\ validate(lastOp'.inp.title, lastOp'.inp.due) = NULL
        /\ Truthy(editingId)
        /\ ~HasId(tasks, editingId))
       => (errorDiv' # "" /\ tasks' = tasks)]_vars

\* C3: a click or a submit whose input fails validation reports the error
\* and leaves the collection and the persisted collection as they were.
C3_InvalidInputChangesNothing ==
    [][/\ (IsClick /\ validate(lastOp'.inp.title, lastOp'.inp.due) # NULL)
          => /\ tasks' = tasks
             /\ stored' = stored
             /\ errorDiv' = validate(lastOp'.inp.title, lastOp'.inp.due)
       /\ (IsSubmit /\ validateForm(formData, now, tz) # NoErrors)
          => /\ rtasks' = rtasks
             /\ errors' # NoErrors]_vars

C3_Witness ==
    /\ lastOp.op = "addOrSaveTask"
    /\ IsBlank(lastOp.inp.title)
    /\ errorDiv = "Title is required!"
    /\ Len(tasks) = 2
    /\ stored = Item(tasks)

C5_TitleNeverBlank ==
    /\ \A i \in 1..Len(tasks) : Trim(tasks[i].title) # <<>>
    /\ \A i \in 1..Len(rtasks) : Trim(rtasks[i].title) # <<>>

C5_Witness ==
    /\ lastOp.op = "addOrSaveTask"
    /\ Truthy(lastOp.id)
    /\ errorDiv = ""
    /\ \E i \in 1..Len(tasks) :
         /\ tasks[i].id = lastOp.id
         /\ tasks[i].title = <<" ", "b">>
         /\ tasks[i].updatedAt > tasks[i].createdAt

\* C6: after every step each task's status is one of the three values; a
\* created task is pending; a status change sets the requested status on the
\* task of the card, whatever its status was.
C6_StatusEnumerated ==
    [][/\ \A i \in 1..Len(tasks') : tasks'[i].status \in Statuses
       /\ IsCreate
          => \E i \in 1..Len(tasks') :
               /\ RemoveAt(tasks', i) = tasks
               /\ tasks'[i].status = "pending"
       /\ lastOp'.op = "updateStatus"
          => /\ HasId(tasks, lastOp'.id)
             /\ \A i \in 1..Len(tasks') :
                  tasks[i].id = lastOp'.id => tasks'[i].status = lastOp'.status]_vars

C6_Witness ==
    /\ lastOp.op = "updateStatus"
    /\ lastOp.status = "in-progress"
    /\ Len(tasks) = 2
    /\ \E i \in 1..Len(tasks) :
         /\ tasks[i].id = lastOp.id
         /\ tasks[i].status = "in-progress"
    /\ \E i \in 1..Len(tasks) :
         /\ tasks[i].id # lastOp.id
         /\ tasks[i].status = "completed"

C8_RenderKeepsCollection ==
    [][lastOp'.op \in {"search", "filter", "sort"} => tasks' = tasks]_vars

C8_Witness ==
    /\ lastOp.op = "sort"
    /\ sortSelect = "due"
    /\ Len(tasks) = 2
    /\ cards = <<tasks[2], tasks[1]>>
    /\ tasks[1] # tasks[2]

\* C9: a confirmed delete removes exactly one task, the one with the id of
\* the card: no task with that id is left, the others stay in their order.
C9_DeleteRemovesOne ==
    [][lastOp'.op = "deleteTask"
       => /\ ~HasId(tasks', lastOp'.id)
          /\ \E i \in 1..Len(tasks) :
               /\ tasks[i].id = lastOp'.id
               /\ tasks' = RemoveAt(tasks, i)]_vars

\* C9 holds of every delete from a collection whose ids are distinct.
C9_UnderDistinctIds ==
    [][(C1_IdsUnique /\ lastOp'.op = "deleteTask")
       => /\ ~HasId(tasks', lastOp'.id)
          /\ Len(tasks') = Len(tasks) - 1
          /\ \E i \in 1..Len(tasks) :
               /\ tasks[i].id = lastOp'.id
               /\ tasks' = RemoveAt(tasks, i)]_vars

\* C10: a status change alters one task, the one with the id of the card:
\* its status and updatedAt are set and nothing else changes.
C10_StatusChangeFrame ==
    [][lastOp'.op = "updateStatus"
       => \E i \in 1..Len(tasks) :
            /\ tasks[i].id = lastOp'.id
            /\ tasks' = [tasks EXCEPT ![i].status = lastOp'.status,
                                      ![i].updatedAt = now]]_vars

\* C10 holds of every status change in a collection whose ids are distinct.
C10_UnderDistinctIds ==
    [][(C1_IdsUnique /\ lastOp'.op = "updateStatus")
       => \E i \in 1..Len(tasks) :
            /\ tasks[i].id = lastOp'.id
            /\ tasks' = [tasks EXCEPT ![i].status = lastOp'.status,
                                      ![i].updatedAt = now]]_vars

\* the step is one of the four mutating operations, carried out
IsMutation ==
    \/ lastOp'.op \in {"deleteTask", "updateStatus"}
    \/ IsClick /\ validate(lastOp'.inp.title, lastOp'.inp.due) = NULL

\* how many times t occurs in ts
CountOf(ts, t) == Cardinality({i \in 1..Len(ts) : ts[i] = t})

\* C11: when the last handler was a mutating operation that ended without
\* an exception, the persisted item is the serialisation of the whole
\* current collection, and reading it back gives the collection, task for
\* task in the same order.
C11_PersistedEqualsMemory ==
    (/\ \/ lastOp.op \in {"deleteTask", "updateStatus"}
        \/ lastOp.op = "addOrSaveTask"
           /\ validate(lastOp.inp.title, lastOp.inp.due) = NULL
     /\ thrown = "")
    => /\ stored.kind = "json"
       /\ stored = Item(tasks)
       /\ JSONparse(stored.val) = tasks

C11_Witness ==
    /\ lastOp.op = "updateStatus"
    /\ thrown = ""
    /\ Len(tasks) = 2
    /\ tasks[1].status = "completed"
    /\ tasks[2].status = "pending"
    /\ JSONparse(stored.val) = tasks

\* C12: with a query in the search box (and no status filter) the presented
\* tasks are exactly those whose title or description contains the query,
\* compared in lower case.
C12_SearchTitleOrDescription ==
    (phase = "running" /\ searchInput # <<>> /\ filterSelect = "all")
    => \A i \in 1..Len(tasks) :
         (\E k \in 1..Len(cards) : cards[k] = tasks[i])
         <=> \/ Includes(ToLowerCase(tasks[i].title), ToLowerCase(searchInput))
             \/ Includes(ToLowerCase(tasks[i].description),
                         ToLowerCase(searchInput))

\* C13 as claimed: with an empty search box nothing is presented.
C13_EmptyQueryPresentsNothing ==
    (phase = "running" /\ searchInput = <<>>) => cards = <<>>

\* C13 amended: an empty search box applies no search filter, so with no
\* status filter every task is presented once; a query that no title
\* contains presents nothing.
C13_EmptyQueryPresentsAll ==
    phase = "running"
    => /\ (searchInput = <<>> /\ filterSelect = "all")
          => /\ Len(cards) = Len(tasks)
             /\ \A i \in 1..Len(tasks) : CountOf(cards, tasks[i]) = CountOf(tasks, tasks[i])
       /\ searchInput = <<"x">> => cards = <<>>

C13_Witness ==
    /\ lastOp.op = "search"
    /\ searchInput = <<>>
    /\ filterSelect = "all"
    /\ Len(tasks) = 2
    /\ Len(cards) = 2

\* C14: with an empty search box, the status filter S presents exactly the
\* tasks whose status is S, each once (nothing when there is none), and
\* "all" presents every task.
C14_FilterByStatusExact ==
    (phase = "running" /\ searchInput = <<>>)
    => /\ \A k \in 1..Len(cards) :
            /\ filterSelect # "all" => cards[k].status = filterSelect
            /\ CountOf(cards, cards[k]) = CountOf(tasks, cards[k])
       /\ \A i \in 1..Len(tasks) :
            (filterSelect = "all" \/ tasks[i].status = filterSelect)
            => \E k \in 1..Len(cards) : cards[k] = tasks[i]

C14_Witness ==
    /\ lastOp.op = "filter"
    /\ filterSelect = "completed"
    /\ searchInput = <<>>
    /\ Len(tasks) = 2
    /\ Len(cards) = 1
    /\ cards[1].status = "completed"

\* C15: a save in edit mode on a task of the collection alters one task, the
\* one being edited: its title, description, due date and updatedAt are set,
\* nothing else changes and no task is added.
C15_EditSaveFrame ==
    [][(/\ IsClick
        /\ validate(lastOp'.inp.title, lastOp'.inp.due) = NULL
        /\ editingId # NULL
        /\ HasId(tasks, editingId))
       => \E i \in 1..Len(tasks) :
            /\ tasks[i].id = editingId
            /\ tasks' = [tasks EXCEPT ![i].title = lastOp'.inp.title,
                                      ![i].description = lastOp'.inp.description,
                                      ![i].due = lastOp'.inp.due,
                                      ![i].updatedAt = now]]_vars

\* C15 holds of every save on a collection whose ids are distinct and not
\* empty.
C15_UnderDistinctIds ==
    [][(/\ C1_IdsUnique
        /\ IsClick
        /\ validate(lastOp'.inp.title, lastOp'.inp.due) = NULL
        /\ Truthy(editingId)
        /\ HasId(tasks, editingId))
       => \E i \in 1..Len(tasks) :
            /\ tasks[i].id = editingId
            /\ tasks' = [tasks EXCEPT ![i].title = lastOp'.inp.title,
                                      ![i].description = lastOp'.inp.description,
                                      ![i].due = lastOp'.inp.due,
                                      ![i].updatedAt = now]]_vars

DueDay(d) == ParseDay(d) \div 2

\* the user's calendar day at clock reading `at`
LocalDay(at, offset) == (at + offset) \div 2

\* C17: a submit with a due date gets the message "Due date cannot be in
\* the past" exactly when the day of the due date is before the user's
\* current day; a submit without a due date never gets it.
C17_PastExactlyWhenEarlierDay ==
    [][IsSubmit
       => IF formData.dueDate = "" THEN errors'.dueDate = ""
          ELSE errors'.dueDate = "Due date cannot be in the past"
               <=> DueDay(formData.dueDate) < LocalDay(now, tz)]_vars

\* C18: a write that fails leaves the persisted item as it was and keeps the
\* change of the collection; a later handler that writes successfully makes
\* the persisted item the whole current collection again.
C18_DirtyUntilNextSave ==
    [][/\ thrown' = "QuotaExceededError"
          => /\ stored' = stored
             /\ lastOp'.op = "deleteTask" => ~HasId(tasks', lastOp'.id)
             /\ lastOp'.op = "updateStatus"
                => \A i \in 1..Len(tasks') :
                     tasks'[i].id = lastOp'.id => tasks'[i].status = lastOp'.status
             /\ (IsClick /\ ~Truthy(editingId)) => Len(tasks') = Len(tasks) + 1
       /\ (IsMutation /\ thrown' = "" /\ phase = "running"
             /\ stored # Item(tasks))
          => stored' = Item(tasks')
       /\ (thrown' = "" /\ phase = "running" /\ stored = Item(tasks))
          => stored' = Item(tasks')]_vars

C18_Witness ==
    /\ thrown = "QuotaExceededError"
    /\ lastOp.op = "updateStatus"
    /\ lastOp.status = "completed"
    /\ Len(tasks) = 2
    /\ \E i \in 1..Len(tasks) : tasks[i].status = "completed"
    /\ stored.kind = "json"
    /\ Len(stored.val) = 1

\* editingId, when it is not null, names a task of the collection
EditingIdNamesTask ==
    editingId # NULL => HasId(tasks, editingId)

\* C19: in edit mode a click with valid input adds no task and leaves edit
\* mode; out of edit mode it adds one task; a click with invalid input keeps
\* editingId; and editingId, when it is not null, names a task of the
\* collection.
C19_EditProtocol ==
    /\ []EditingIdNamesTask
    /\ [][IsClick
          => IF validate(lastOp'.inp.title, lastOp'.inp.due) # NULL
             THEN editingId' = editingId
             ELSE IF editingId # NULL
                  THEN Len(tasks') = Len(tasks) /\ editingId' = NULL
                  ELSE Len(tasks') = Len(tasks) + 1 /\ editingId' = NULL]_vars

\* the click part of C19 holds while editingId is null or a non-empty id
C19_ClicksUnderNonEmptyId ==
    [][(IsClick /\ editingId # "")
       => IF validate(lastOp'.inp.title, lastOp'.inp.due) # NULL
          THEN editingId' = editingId
          ELSE IF editingId # NULL
               THEN Len(tasks') = Len(tasks) /\ editingId' = NULL
               ELSE Len(tasks') = Len(tasks) + 1 /\ editingId' = NULL]_vars

\* C20: the collection is ordered by createdAt from newest to oldest, every
\* task has updatedAt >= createdAt, and with the controls at "all", no search
\* and "sort by created date" the presented sequence is the collection.
C20_NewestFirst ==
    /\ \A i, j \in 1..Len(tasks) :
         i < j => tasks[i].createdAt >= tasks[j].createdAt
    /\ \A i \in 1..Len(tasks) : tasks[i].updatedAt >= tasks[i].createdAt
    /\ (phase = "running" /\ searchInput = <<>> /\ filterSelect = "all"
          /\ sortSelect = "createdAt")
       => cards = tasks

C20_Witness ==
    /\ Len(tasks) = 2
    /\ tasks[1].createdAt > tasks[2].createdAt
    /\ tasks[2].updatedAt > tasks[2].createdAt
    /\ cards = tasks

\* C21: a submit that fails validation makes no onAddTask call and keeps
\* the form data; a submit that passes makes exactly one call, with the
\* entered data; the form is reset to its defaults (and success reported)
\* when that call resolves, and when it rejects the entered data is kept
\* and no success is reported.
C21_SubmitCallsAndResets ==
    [][IsSubmit
       => IF validateForm(formData, now, tz) # NoErrors
          THEN /\ calls' = <<>>
               /\ formData' = formData
               /\ rtasks' = rtasks
               /\ alertMsg' = alertMsg
          ELSE /\ Len(calls') = 1
               /\ calls'[1].arg = TaskData(formData)
               /\ IF calls'[1].resolved
                  THEN /\ formData' = FormDefaults
                       /\ errors' = NoErrors
                       /\ alertMsg' = "Task added successfully!"
                  ELSE /\ formData' = formData
                       /\ formData' # FormDefaults
                       /\ alertMsg' # "Task added successfully!"
                       /\ rtasks' = rtasks]_vars

C21_Witness ==
    /\ lastOp.op = "handleSubmit"
    /\ Len(calls) = 1
    /\ ~calls[1].resolved
    /\ formData.title = <<"A", "b">>
    /\ alertMsg = "Failed to add task. Please try again."
    /\ Len(rtasks) = 1

====
